---------------------------- MODULE Spec2Model ----------------------------
(***************************************************************************)
(* Model of the tag-normalization engine of notes-db:                      *)
(*   - NotesDatabase.add_note            (notes_database.py)               *)
(*   - apply_tag_normalization           (apply_tag_normalization.py)      *)
(*   - cluster_similar_notes,                                              *)
(*     find_tag_normalization_suggestions (suggest_tag_normalization.py)   *)
(*                                                                         *)
(* The store is the three tables notes, tags and note_tags.  notes and     *)
(* tags are sequences of rows whose ids are the row positions, as handed   *)
(* out by the schema's sequences; note_tags is a bag of <<note_id, tag_id>>*)
(* rows.  Tag names are sequences of characters, so that STRING_AGG, split *)
(* and strip are modelled on the text itself.                              *)
(***************************************************************************)
EXTENDS Integers, Sequences, FiniteSets, Bags, TLC

VARIABLES db, last, analysis

vars == <<db, last, analysis>>

-----------------------------------------------------------------------------
(* Bounds of the model *)

MaxNotes == 2

MaxClusterNotes == 4

MaxSuggestNotes == 3

MaxNameNotes == 2

MaxOrderNotes == 3

MaxLinkNotes == 2

MaxTornNotes == 3

(* Program constants *)

EmbeddingDim == 3072

DefaultMinClusterSize == 2

DefaultLimit == 10

-----------------------------------------------------------------------------
(* Generic helpers *)

Range(s) == {s[i] : i \in DOMAIN s}

-----------------------------------------------------------------------------
(* Tag names *)

PY == <<"p", "y">>

PYTHON == <<"p", "y", "t", "h", "o", "n">>

ML == <<"m", "l">>

TagNames == {PY, PYTHON, ML}

(* A tag given as --tag " " *)
SPACE == <<" ">>

None == <<"None">>

-----------------------------------------------------------------------------
(* The store: tables notes, tags, note_tags *)

EmptyStore == [notes |-> <<>>, tags |-> <<>>, note_tags |-> EmptyBag]

(* SELECT tag_id FROM tags WHERE name = ? ... fetchone(); 0 stands for None *)
SelectTagId(w, name) ==
    IF \E i \in DOMAIN w.tags : w.tags[i] = name
    THEN CHOOSE i \in DOMAIN w.tags :
            /\ w.tags[i] = name
            /\ \A j \in DOMAIN w.tags : w.tags[j] = name => i <= j
    ELSE 0

(* INSERT INTO tags (name) VALUES (?) RETURNING tag_id *)
InsertTag(w, name) == [w EXCEPT !.tags = Append(@, name)]

(* SELECT 1 FROM notes WHERE note_id = ? *)
NoteExists(w, note_id) == note_id \in DOMAIN w.notes

Replicate(x, n) == [i \in 1 .. n |-> x]

(* The rows <<tag_id, name>> of note_tags JOIN tags for one note, tag ids  *)
(* from..Len(tags), one row per link row                                   *)
RECURSIVE JoinedRows(_, _, _)
JoinedRows(w, note_id, from) ==
    IF from > Len(w.tags) THEN <<>>
    ELSE Replicate(<<from, w.tags[from]>>, CopiesIn(<<note_id, from>>, w.note_tags))
         \o JoinedRows(w, note_id, from + 1)

(* SELECT t.tag_id, t.name FROM note_tags nt JOIN tags t ... WHERE nt.note_id = ? *)
CurrentTags(w, note_id) == JoinedRows(w, note_id, 1)

(* Mutant: the DELETE misses its note_id condition *)
DeleteLinksOfTag(w, note_id, tag_id) ==
    [w EXCEPT !.note_tags =
        [r \in {q \in BagToSet(@) : q[2] # tag_id} |-> @[r]]]

(* Mutant: the DELETE misses its tag_id condition *)
DeleteLinksOfNote(w, note_id, tag_id) ==
    [w EXCEPT !.note_tags =
        [r \in {q \in BagToSet(@) : q[1] # note_id} |-> @[r]]]

(* DELETE FROM note_tags WHERE note_id = ? AND tag_id = ? *)
DeleteLink(w, note_id, tag_id) ==
    [w EXCEPT !.note_tags =
        [r \in BagToSet(@) \ {<<note_id, tag_id>>} |-> @[r]]]

(* INSERT INTO note_tags (note_id, tag_id) VALUES (?, ?) *)
InsertLink(w, note_id, tag_id) ==
    [w EXCEPT !.note_tags = @ (+) SetToBag({<<note_id, tag_id>>})]

(* INSERT INTO notes (title, content, embedding) ... RETURNING note_id *)
InsertNote(w, embedding) == [w EXCEPT !.notes = Append(@, embedding)]

(* Names of the tags linked to a note, one entry per link row *)
TagNamesOf(w, note_id) ==
    LET cur == CurrentTags(w, note_id)
    IN  [i \in DOMAIN cur |-> cur[i][2]]

TagSetOf(w, note_id) == Range(TagNamesOf(w, note_id))

-----------------------------------------------------------------------------
(* NotesDatabase.add_note *)

RECURSIVE AddTags(_, _, _)
AddTags(w, note_id, tags) ==
    IF tags = <<>> THEN w
    ELSE LET found  == SelectTagId(w, Head(tags))
             w1     == IF found = 0 THEN InsertTag(w, Head(tags)) ELSE w
             tag_id == IF found = 0 THEN Len(w1.tags) ELSE found
         IN  AddTags(InsertLink(w1, note_id, tag_id), note_id, Tail(tags))

(* The transaction body of add_note: the note row, then its tags *)
AddNoteBody(w, embedding, tags) ==
    LET w1 == InsertNote(w, embedding)
    IN  AddTags(w1, Len(w1.notes), tags)

-----------------------------------------------------------------------------
(* apply_tag_normalization: the transaction                                *)
(*                                                                         *)
(* A run is a record m: the working store w seen inside the transaction,   *)
(* the number of storage calls made, whether one of them raised, the       *)
(* counters and warnings of the command, the rows the storage layer really *)
(* deleted and inserted, and one entry per processed note id.  failAt is   *)
(* the ordinal of the storage call that raises (0: none does).             *)

StartRun(w) ==
    [w |-> w, calls |-> 0, failed |-> FALSE,
     notes_updated |-> 0, tags_removed |-> 0, tags_added |-> 0,
     warnings |-> <<>>, deleted |-> 0, inserted |-> 0, steps |-> <<>>,
     tag_created |-> FALSE, primary_tag_id |-> 0]

(* db.conn.execute(...): one storage call, which may raise *)
Execute(m, failAt) ==
    [m EXCEPT !.calls = @ + 1, !.failed = (m.calls + 1 = failAt)]

(* Mutant: the keep tag is inserted without looking it up first *)
EnsurePrimaryTagNoLookup(m, keep_tag, failAt) ==
    LET t2 == Execute(m, failAt)
    IN  IF t2.failed THEN t2
        ELSE [t2 EXCEPT !.w = InsertTag(@, keep_tag),
                        !.tag_created = TRUE,
                        !.primary_tag_id = Len(t2.w.tags) + 1]

(* Lines 63-76: get or create the keep tag *)
EnsurePrimaryTag(m, keep_tag, failAt) ==
    LET t1 == Execute(m, failAt)
    IN  IF t1.failed THEN t1
        ELSE LET found == SelectTagId(t1.w, keep_tag)
             IN  IF found # 0 THEN [t1 EXCEPT !.primary_tag_id = found]
                 ELSE LET t2 == Execute(t1, failAt)
                      IN  IF t2.failed THEN t2
                          ELSE [t2 EXCEPT !.w = InsertTag(@, keep_tag),
                                          !.tag_created = TRUE,
                                          !.primary_tag_id = Len(t2.w.tags) + 1]

(* Lines 108-113: one DELETE per tag id to remove *)
RECURSIVE RemoveTags(_, _, _, _)
RemoveTags(m, note_id, tags_to_remove, failAt) ==
    IF tags_to_remove = <<>> THEN m
    ELSE LET t == Execute(m, failAt)
         IN  IF t.failed THEN t
             ELSE LET w1 == DeleteLink(t.w, note_id, Head(tags_to_remove))
                  IN  RemoveTags(
                        [t EXCEPT !.w = w1,
                                  !.deleted = @ + BagCardinality(t.w.note_tags)
                                                - BagCardinality(w1.note_tags)],
                        note_id, Tail(tags_to_remove), failAt)

(* Mutant: every fetched tag is removed, whatever the replace list says *)
TagsToRemoveAll(current, replace_tag_list) ==
    [i \in DOMAIN current |-> current[i][1]]

(* Lines 103-105: which of the fetched rows are to be removed *)
TagsToRemove(current, replace_tag_list) ==
    LET hit == SelectSeq(current, LAMBDA r : r[2] \in Range(replace_tag_list))
    IN  [i \in DOMAIN hit |-> hit[i][1]]

(* Mutant: the keep tag is never found among the links fetched *)
HasPrimaryTagNever(current, keep_tag) == FALSE

(* Line 101 *)
HasPrimaryTag(current, keep_tag) ==
    \E i \in DOMAIN current : current[i][2] = keep_tag

(* Mutant: a note id that is not found raises *)
RaiseOnMissing(m, note_id) == [m EXCEPT !.failed = TRUE]

(* Lines 85-87: warn about a note id that is not found and go on *)
SkipMissing(m, note_id) ==
    [m EXCEPT !.warnings = Append(@, note_id),
              !.steps = Append(@, [note_id |-> note_id, exists |-> FALSE,
                                   before |-> <<>>, after |-> <<>>])]

(* Lines 79-126: the body of the loop for one note id *)
ProcessNote(m, note_id, keep_tag, replace_tag_list, failAt) ==
    LET t1 == Execute(m, failAt)
    IN  IF t1.failed THEN t1
        ELSE IF ~NoteExists(t1.w, note_id)
        THEN SkipMissing(t1, note_id)
        ELSE
        LET t2 == Execute(t1, failAt)
        IN  IF t2.failed THEN t2
            ELSE
            LET current         == CurrentTags(t2.w, note_id)
                has_primary_tag == HasPrimaryTag(current, keep_tag)
                tags_to_remove  == TagsToRemove(current, replace_tag_list)
                t3 == RemoveTags(t2, note_id, tags_to_remove, failAt)
            IN  IF t3.failed THEN t3
                ELSE
                LET t4 == [t3 EXCEPT !.tags_removed = @ + Len(tags_to_remove)]
                    t5 == IF has_primary_tag THEN t4 ELSE Execute(t4, failAt)
                IN  IF t5.failed THEN t5
                    ELSE
                    LET t6 == IF has_primary_tag THEN t5
                              ELSE [t5 EXCEPT
                                      !.w = InsertLink(@, note_id, t5.primary_tag_id),
                                      !.inserted = @ + 1,
                                      !.tags_added = @ + 1]
                    IN  [t6 EXCEPT
                           !.notes_updated = @ + 1,
                           !.steps = Append(@,
                              [note_id |-> note_id, exists |-> TRUE,
                               before |-> TagNamesOf(t2.w, note_id),
                               after  |-> TagNamesOf(t6.w, note_id)])]

(* Line 79: for note_id in note_id_list *)
RECURSIVE ProcessNotes(_, _, _, _, _)
ProcessNotes(m, note_id_list, keep_tag, replace_tag_list, failAt) ==
    IF note_id_list = <<>> \/ m.failed THEN m
    ELSE ProcessNotes(
            ProcessNote(m, Head(note_id_list), keep_tag, replace_tag_list, failAt),
            Tail(note_id_list), keep_tag, replace_tag_list, failAt)

(* Lines 55-129: BEGIN TRANSACTION ... COMMIT *)
ApplyTransaction(w, note_id_list, keep_tag, replace_tag_list, failAt) ==
    LET t0 == Execute(StartRun(w), failAt)
    IN  IF t0.failed THEN t0
        ELSE
        LET t1 == EnsurePrimaryTag(t0, keep_tag, failAt)
            t2 == ProcessNotes(t1, note_id_list, keep_tag, replace_tag_list, failAt)
        IN  IF t2.failed THEN t2 ELSE Execute(t2, failAt)

-----------------------------------------------------------------------------
(* Text helpers: str.strip() on a sequence of characters *)

Whitespace == {" "}

RECURSIVE LStrip(_)
LStrip(s) == IF s # <<>> /\ Head(s) \in Whitespace THEN LStrip(Tail(s)) ELSE s

RECURSIVE RStrip(_)
RStrip(s) ==
    IF s # <<>> /\ s[Len(s)] \in Whitespace
    THEN RStrip(SubSeq(s, 1, Len(s) - 1)) ELSE s

Strip(s) == RStrip(LStrip(s))

-----------------------------------------------------------------------------
(* apply_tag_normalization: the command *)

(* Line 35: replace_tag_list = [tag.strip() for tag in replace_tags.split(',')] *)
ParseReplaceTags(replace_tags) ==
    [i \in DOMAIN replace_tags |-> Strip(replace_tags[i])]

(* Mutant: the error handler leaves the writes of the transaction in place *)
RollbackKeepsWrites(pre, w) == w

(* Line 151: ROLLBACK gives back the store as it was at BEGIN TRANSACTION *)
Rollback(pre, w) == pre

(* Mutant: the storage accepts a ROLLBACK when no transaction is active *)
RollbackAlwaysAccepted(in_transaction) == FALSE

(* Line 151 when it is reached after COMMIT: DuckDB refuses a ROLLBACK     *)
(* when no transaction is active (TransactionContext Error: cannot         *)
(* rollback - no transaction is active), so execute raises                 *)
RollbackRefused(in_transaction) == ~in_transaction

(* Lines 149-156: the inner handler issues ROLLBACK and then prints "No    *)
(* changes were made to the database."; a ROLLBACK that raises leaves the  *)
(* handler before that line and the outer handler prints "Error: ..."      *)
HandlerEvents(in_transaction) ==
    IF RollbackRefused(in_transaction)
    THEN <<"ROLLBACK", "ERROR">>
    ELSE <<"ROLLBACK", "NO_CHANGES">>

(* Mutant: the database is synced on the way out, whatever happened *)
FinallySyncs == <<"SYNC", "CLOSE">>

(* Lines 157-159: finally, db.close() *)
Finally == <<"CLOSE">>

(* Lines 21-159.  is_behind is the answer of check_if_behind_remote;       *)
(* failAt = calls + 1 of a run that committed is a failure raised after    *)
(* COMMIT by sync_database_to_github (it catches CalledProcessError only). *)
(* events: the transaction statements issued, the sync attempted, the      *)
(* messages "No changes were made" (NO_CHANGES) and "Error: ..." (ERROR).  *)
ApplyCommand(pre, is_behind, note_id_list, keep_tag, replace_tags, failAt) ==
    LET replace_tag_list == ParseReplaceTags(replace_tags)
        m == ApplyTransaction(pre, note_id_list, keep_tag, replace_tag_list, failAt)
    IN  IF is_behind
        THEN [store |-> pre, outcome |-> "behind", run |-> StartRun(pre),
              events |-> <<>>]
        ELSE IF m.failed /\ m.calls = 1
        THEN [store |-> pre, outcome |-> "error", run |-> m,
              events |-> <<"ERROR">> \o Finally]
        ELSE IF m.failed
        THEN [store |-> Rollback(pre, m.w), outcome |-> "rolled_back", run |-> m,
              events |-> <<"BEGIN">> \o HandlerEvents(TRUE) \o Finally]
        ELSE IF failAt = m.calls + 1
        THEN [store |-> m.w, outcome |-> "error_after_commit", run |-> m,
              events |-> <<"BEGIN", "COMMIT", "SYNC">> \o HandlerEvents(FALSE)
                            \o Finally]
        ELSE [store |-> m.w, outcome |-> "committed", run |-> m,
              events |-> <<"BEGIN", "COMMIT", "SYNC">> \o Finally]

(* Number of storage calls of the run in which none fails *)
StorageCalls(pre, note_id_list, keep_tag, replace_tags) ==
    ApplyTransaction(pre, note_id_list, keep_tag,
                     ParseReplaceTags(replace_tags), 0).calls

-----------------------------------------------------------------------------
(* add-note: the command (add_note.py) around NotesDatabase.add_note *)

(* add_note.py line 39: tags = [tag] if tag else [] *)
TagsOfOption(tag) == IF tag = None \/ tag = <<>> THEN <<>> ELSE <<tag>>

(* Mutant: only an embedding that is too short is refused *)
EmbeddingTooShort(dim) == dim < EmbeddingDim

(* notes_database.py lines 55 and 123: len(embedding) != 3072 *)
InvalidEmbedding(dim) == dim # EmbeddingDim

(* notes_database.py lines 54-102; fails: a storage call of the transaction raises *)
AddNoteCommand(pre, is_behind, tag, embedding, dim, fails) ==
    IF is_behind
    THEN [store |-> pre, outcome |-> "behind", events |-> <<>>]
    ELSE IF InvalidEmbedding(dim)
    THEN [store |-> pre, outcome |-> "invalid", events |-> <<>>]
    ELSE IF fails
    THEN [store |-> Rollback(pre, AddNoteBody(pre, embedding, TagsOfOption(tag))),
          outcome |-> "rolled_back", events |-> <<"BEGIN", "ROLLBACK">>]
    ELSE [store |-> AddNoteBody(pre, embedding, TagsOfOption(tag)),
          outcome |-> "committed", events |-> <<"BEGIN", "COMMIT", "SYNC">>]

-----------------------------------------------------------------------------
(* Text helpers of the analysis: STRING_AGG(name, ', ') and str.split(',') *)

Separator == <<",", " ">>

RECURSIVE StringAgg(_)
StringAgg(names) ==
    IF names = <<>> THEN <<>>
    ELSE IF Len(names) = 1 THEN Head(names)
    ELSE Head(names) \o Separator \o StringAgg(Tail(names))

(* s.split(','): the pieces between the commas; always at least one piece *)
RECURSIVE SplitFrom(_, _)
SplitFrom(s, piece) ==
    IF s = <<>> THEN <<piece>>
    ELSE IF Head(s) = "," THEN <<piece>> \o SplitFrom(Tail(s), <<>>)
    ELSE SplitFrom(Tail(s), Append(piece, Head(s)))

Split(s) == SplitFrom(s, <<>>)

(* Line 89: [tag.strip() for tag in (tags.split(',') if tags else [])] *)
TagsList(tags) ==
    IF tags = <<>> THEN <<>>
    ELSE LET pieces == Split(tags)
         IN  [i \in DOMAIN pieces |-> Strip(pieces[i])]

-----------------------------------------------------------------------------
(* cluster_similar_notes *)

(* n1.embedding <=> n2.embedding: cosine distance in hundredths.  An       *)
(* embedding is modelled by its direction, in steps of 30 degrees.         *)
CosineDistance(e1, e2) ==
    LET k == IF e1 >= e2 THEN e1 - e2 ELSE e2 - e1
    IN  CASE k = 0 -> 0
          [] k = 1 -> 13
          [] k = 2 -> 50
          [] k = 3 -> 100
          [] OTHER -> 150

(* Line 65, in hundredths *)
DistanceThreshold(similarity_threshold) == 100 - similarity_threshold

(* Mutant: every note passes for tagged *)
HasTagLinkAlways(w, note_id) == TRUE

(* EXISTS (SELECT 1 FROM note_tags nt WHERE nt.note_id = n.note_id) *)
HasTagLink(w, note_id) == \E r \in BagToSet(w.note_tags) : r[1] = note_id

(* Lines 69-81: one row <<note_id, tags>> per note that has a tag link *)
RECURSIVE NotesWithTags(_, _)
NotesWithTags(w, from) ==
    IF from > Len(w.notes) THEN <<>>
    ELSE (IF HasTagLink(w, from)
          THEN << <<from, StringAgg(TagNamesOf(w, from))>> >>
          ELSE <<>>)
         \o NotesWithTags(w, from + 1)

(* Lines 86-96: notes_data, keyed by note id *)
NotesData(notes_with_tags) ==
    LET kept == SelectSeq(notes_with_tags, LAMBDA row : TagsList(row[2]) # <<>>)
    IN  [id \in {kept[i][1] : i \in DOMAIN kept} |->
            LET row == CHOOSE i \in DOMAIN kept : kept[i][1] = id
            IN  [note_id |-> id, tags |-> TagsList(kept[row][2])]]

(* Mutant: the threshold itself is excluded *)
BelowThreshold(distance, distance_threshold) == distance < distance_threshold

(* Line 125: n1.embedding <=> n2.embedding <= ? *)
WithinThreshold(distance, distance_threshold) == distance <= distance_threshold

(* Lines 109-125: the rows of the self-join that pass the WHERE clause *)
PairRows(w, distance_threshold) ==
    {row \in {<<n1, n2, CosineDistance(w.notes[n1], w.notes[n2])>> :
                 n1 \in DOMAIN w.notes, n2 \in DOMAIN w.notes} :
        /\ row[1] < row[2]
        /\ HasTagLink(w, row[1])
        /\ HasTagLink(w, row[2])
        /\ WithinThreshold(row[3], distance_threshold)}

(* Lines 126-127: ORDER BY note1_id, distance (then note2_id, for rows that tie) *)
RowBefore(r1, r2) ==
    \/ r1[1] < r2[1]
    \/ r1[1] = r2[1] /\ r1[3] < r2[3]
    \/ r1[1] = r2[1] /\ r1[3] = r2[3] /\ r1[2] < r2[2]

RECURSIVE OrderRows(_)
OrderRows(rows) ==
    IF rows = {} THEN <<>>
    ELSE LET first == CHOOSE r \in rows : \A q \in rows \ {r} : RowBefore(r, q)
         IN  <<first>> \o OrderRows(rows \ {first})

SimilarPairs(w, distance_threshold) == OrderRows(PairRows(w, distance_threshold))

(* Lines 136-144: the adjacency lists; keys holds the dict's insertion order *)
EmptyGraph == [keys |-> <<>>, adj |-> <<>>]

AddKey(g, id) ==
    IF id \in Range(g.keys) THEN g
    ELSE [keys |-> Append(g.keys, id),
          adj  |-> [k \in Range(g.keys) \cup {id} |->
                      IF k = id THEN <<>> ELSE g.adj[k]]]

AddEdge(g, row) ==
    LET g1 == AddKey(AddKey(g, row[1]), row[2])
        g2 == [g1 EXCEPT !.adj[row[1]] = Append(@, <<row[2], row[3]>>)]
    IN  [g2 EXCEPT !.adj[row[2]] = Append(@, <<row[1], row[3]>>)]

RECURSIVE SimilarityGraph(_, _)
SimilarityGraph(g, similar_pairs) ==
    IF similar_pairs = <<>> THEN g
    ELSE SimilarityGraph(AddEdge(g, Head(similar_pairs)), Tail(similar_pairs))

(* Mutant: only the first neighbour is looked at *)
PushFirstNeighbor(stack, neighbors, visited) ==
    IF neighbors = <<>> \/ Head(neighbors)[1] \in visited THEN stack
    ELSE Append(stack, Head(neighbors)[1])

(* Mutant: only the last unvisited neighbor is pushed *)
PushLastNeighbor(stack, neighbors, visited) ==
    LET unvisited == SelectSeq(neighbors, LAMBDA nb : nb[1] \notin visited)
    IN  IF unvisited = <<>> THEN stack
        ELSE Append(stack, unvisited[Len(unvisited)][1])

(* Lines 171-173: push the neighbours that are not visited yet *)
RECURSIVE PushNeighbors(_, _, _)
PushNeighbors(stack, neighbors, visited) ==
    IF neighbors = <<>> THEN stack
    ELSE PushNeighbors(
            IF Head(neighbors)[1] \in visited THEN stack
            ELSE Append(stack, Head(neighbors)[1]),
            Tail(neighbors), visited)

(* Mutant: a popped id is never taken for visited *)
NeverVisited(current_id, visited) == FALSE

(* Lines 162-163: a popped id that was visited meanwhile is dropped *)
AlreadyVisited(current_id, visited) == current_id \in visited

(* Mutant: a note that the listing does not hold is a member too *)
AppendAnyNote(cluster, notes_data, current_id) ==
    Append(cluster, IF current_id \in DOMAIN notes_data
                    THEN notes_data[current_id]
                    ELSE [note_id |-> current_id, tags |-> <<>>])

(* Lines 167-168: only a note of the listing joins the cluster *)
AppendIfListed(cluster, notes_data, current_id) ==
    IF current_id \in DOMAIN notes_data
    THEN Append(cluster, notes_data[current_id])
    ELSE cluster

(* Lines 159-173: the while loop of one depth-first search *)
RECURSIVE Traverse(_, _, _, _, _)
Traverse(g, notes_data, stack, visited, cluster) ==
    IF stack = <<>> THEN [visited |-> visited, cluster |-> cluster]
    ELSE LET current_id == stack[Len(stack)]
             rest       == SubSeq(stack, 1, Len(stack) - 1)
         IN  IF AlreadyVisited(current_id, visited)
             THEN Traverse(g, notes_data, rest, visited, cluster)
             ELSE LET visited1 == visited \cup {current_id}
                      cluster1 == AppendIfListed(cluster, notes_data, current_id)
                      neighbors == IF current_id \in Range(g.keys)
                                   THEN g.adj[current_id] ELSE <<>>
                  IN  Traverse(g, notes_data,
                               PushNeighbors(rest, neighbors, visited1),
                               visited1, cluster1)

(* Lines 147-177: one search per key that is not visited yet *)
RECURSIVE Components(_, _, _, _, _)
Components(g, notes_data, keys, visited, clusters) ==
    IF keys = <<>> THEN clusters
    ELSE IF Head(keys) \in visited
    THEN Components(g, notes_data, Tail(keys), visited, clusters)
    ELSE LET t == Traverse(g, notes_data, <<Head(keys)>>, visited, <<>>)
         IN  Components(g, notes_data, Tail(keys), t.visited,
                        IF Len(t.cluster) >= 2 THEN Append(clusters, t.cluster)
                        ELSE clusters)

(* Lines 98-179, after the listing: the clusters of the similarity graph *)
ClustersOf(notes_data, similar_pairs) ==
    IF DOMAIN notes_data = {} \/ similar_pairs = <<>> THEN <<>>
    ELSE LET g == SimilarityGraph(EmptyGraph, similar_pairs)
         IN  Components(g, notes_data, g.keys, {}, <<>>)

-----------------------------------------------------------------------------
(* NotesDatabase.search_notes_by_similarity (notes_database.py) *)

(* Lines 144-153: the notes the WHERE clause lets through *)
SearchCandidates(w, tag_filter) ==
    IF tag_filter = None \/ tag_filter = <<>> THEN DOMAIN w.notes
    ELSE {n \in DOMAIN w.notes :
            \E r \in BagToSet(w.note_tags) : r[1] = n /\ w.tags[r[2]] = tag_filter}

(* Lines 128-139: one row per candidate, with its distance to the query *)
SearchRows(w, query_embedding, tag_filter) ==
    {[note_id |-> n,
      distance |-> CosineDistance(w.notes[n], query_embedding),
      tags |-> StringAgg(TagNamesOf(w, n))] : n \in SearchCandidates(w, tag_filter)}

(* Lines 156-157: the orders ORDER BY distance allows *)
RECURSIVE SearchOrders(_)
SearchOrders(rows) ==
    IF rows = {} THEN {<<>>}
    ELSE UNION {{<<r>> \o rest : rest \in SearchOrders(rows \ {r})} :
                r \in {r \in rows : \A q \in rows : q.distance >= r.distance}}

(* Line 158: LIMIT ? *)
Limit(rows, limit) == SubSeq(rows, 1, IF Len(rows) < limit THEN Len(rows) ELSE limit)

(* Lines 123-167: the outcomes of one call, one per order the store may    *)
(* return rows of equal distance in; distances: the distances computed     *)
SearchNotesBySimilarity(w, query_embedding, dim, limit, tag_filter) ==
    IF InvalidEmbedding(dim)
    THEN {[outcome |-> "invalid", distances |-> <<>>, results |-> <<>>]}
    ELSE {[outcome |-> "found",
           distances |-> [i \in DOMAIN rows |-> rows[i].distance],
           results |-> Limit(rows, limit)] :
             rows \in SearchOrders(SearchRows(w, query_embedding, tag_filter))}

-----------------------------------------------------------------------------
(* find_tag_normalization_suggestions *)

(* Mutant: a tag that has a count keeps it *)
CountTagOnce(tag_counts, tag) ==
    IF \E i \in DOMAIN tag_counts : tag_counts[i][1] = tag
    THEN tag_counts
    ELSE Append(tag_counts, <<tag, 1>>)

(* Line 199: tag_counts[tag] += 1, on a dict that keeps insertion order *)
CountTag(tag_counts, tag) ==
    IF \E i \in DOMAIN tag_counts : tag_counts[i][1] = tag
    THEN [i \in DOMAIN tag_counts |->
            IF tag_counts[i][1] = tag
            THEN <<tag, tag_counts[i][2] + 1>> ELSE tag_counts[i]]
    ELSE Append(tag_counts, <<tag, 1>>)

RECURSIVE CountTags(_, _)
CountTags(tag_counts, tags) ==
    IF tags = <<>> THEN tag_counts
    ELSE CountTags(CountTag(tag_counts, Head(tags)), Tail(tags))

(* Lines 196-199 *)
RECURSIVE TagCounts(_, _)
TagCounts(tag_counts, cluster) ==
    IF cluster = <<>> THEN tag_counts
    ELSE TagCounts(CountTags(tag_counts, Head(cluster).tags), Tail(cluster))

(* Mutant: the last of the tags with the largest count *)
MostCommonTagLast(tag_counts) ==
    LET i == CHOOSE i \in DOMAIN tag_counts :
                /\ \A j \in DOMAIN tag_counts : tag_counts[j][2] <= tag_counts[i][2]
                /\ \A j \in DOMAIN tag_counts :
                      tag_counts[j][2] = tag_counts[i][2] => j <= i
    IN  tag_counts[i][1]

(* Line 206: max(tag_counts.items(), key=count)[0], the first of the largest *)
MostCommonTag(tag_counts) ==
    LET i == CHOOSE i \in DOMAIN tag_counts :
                /\ \A j \in DOMAIN tag_counts : tag_counts[j][2] <= tag_counts[i][2]
                /\ \A j \in DOMAIN tag_counts :
                      tag_counts[j][2] = tag_counts[i][2] => i <= j
    IN  tag_counts[i][1]

(* Mutant: a cluster with two distinct tags is skipped as well *)
SkipClusterUpToTwo(tag_counts) == Len(tag_counts) <= 2

(* Line 202: if len(tag_counts) <= 1: continue *)
SkipCluster(tag_counts) == Len(tag_counts) <= 1

(* Lines 194-217, for one cluster: <<>> when it is skipped, else <<suggestion>> *)
SuggestionOf(cluster) ==
    LET tag_counts == TagCounts(<<>>, cluster)
    IN  IF SkipCluster(tag_counts) THEN <<>>
        ELSE IF ~(Len(tag_counts) > 1) THEN <<>>
        ELSE << [note_ids |-> [i \in DOMAIN cluster |-> cluster[i].note_id],
                 tags |-> tag_counts,
                 most_common_tag |-> MostCommonTag(tag_counts)] >>

RECURSIVE FindSuggestions(_)
FindSuggestions(clusters) ==
    IF clusters = <<>> THEN <<>>
    ELSE SuggestionOf(Head(clusters)) \o FindSuggestions(Tail(clusters))

-----------------------------------------------------------------------------
(* TagNormalizationSuggestion: what str(suggestion) offers the operator *)

(* Mutant: an item goes before the items of equal count *)
InsertBeforeTies(sorted_tags, item) ==
    LET before == {i \in DOMAIN sorted_tags : sorted_tags[i][2] > item[2]}
    IN  SubSeq(sorted_tags, 1, Cardinality(before)) \o <<item>>
        \o SubSeq(sorted_tags, Cardinality(before) + 1, Len(sorted_tags))

(* Line 27: sorted(..., key=count, reverse=True) is stable, so an item     *)
(* goes after the items of larger or equal count that came before it       *)
InsertByCount(sorted_tags, item) ==
    LET before == {i \in DOMAIN sorted_tags : sorted_tags[i][2] >= item[2]}
    IN  SubSeq(sorted_tags, 1, Cardinality(before)) \o <<item>>
        \o SubSeq(sorted_tags, Cardinality(before) + 1, Len(sorted_tags))

(* Line 27: sorted_tags, from the items of the tally in insertion order *)
RECURSIVE SortedTags(_, _)
SortedTags(sorted_tags, items) ==
    IF items = <<>> THEN sorted_tags
    ELSE SortedTags(InsertByCount(sorted_tags, Head(items)), Tail(items))

(* Line 17: keep_tag or self.most_common_tag; the empty string is falsy *)
TagToKeep(keep_tag, most_common_tag) ==
    IF keep_tag = <<>> THEN most_common_tag ELSE keep_tag

(* Lines 15-18: get_other_tags *)
GetOtherTags(suggestion, keep_tag) ==
    LET tag_to_keep == TagToKeep(keep_tag, suggestion.most_common_tag)
        names == [i \in DOMAIN suggestion.tags |-> suggestion.tags[i][1]]
    IN  SelectSeq(names, LAMBDA tag : tag # tag_to_keep)

(* Lines 31-37: one example command per item of sorted_tags *)
Examples(suggestion) ==
    LET sorted_tags == SortedTags(<<>>, suggestion.tags)
    IN  [i \in DOMAIN sorted_tags |->
            [note_ids |-> suggestion.note_ids,
             keep_tag |-> sorted_tags[i][1],
             count |-> sorted_tags[i][2],
             replace_tags |-> GetOtherTags(suggestion, sorted_tags[i][1])]]

(* Line 33: ",".join of the other tags, each in double quotes that the     *)
(* shell takes away: the text apply-tag-normalization gets as              *)
(* --replace-tags                                                          *)
RECURSIVE JoinOtherTags(_)
JoinOtherTags(other_tags) ==
    IF other_tags = <<>> THEN <<>>
    ELSE IF Len(other_tags) = 1 THEN Head(other_tags)
    ELSE Head(other_tags) \o <<",">> \o JoinOtherTags(Tail(other_tags))

(* Lines 277-280: the examples of every suggestion displayed *)
Rendered(suggestions) == [i \in DOMAIN suggestions |-> Examples(suggestions[i])]

-----------------------------------------------------------------------------
(* suggest_tag_normalization: the command *)

(* Mutant: a cluster of exactly min_cluster_size notes is dropped *)
FilterAboveSize(clusters, min_cluster_size) ==
    SelectSeq(clusters, LAMBDA cluster : Len(cluster) > min_cluster_size)

(* Line 261 *)
FilterBySize(clusters, min_cluster_size) ==
    SelectSeq(clusters, LAMBDA cluster : Len(cluster) >= min_cluster_size)

(* Mutant: the suggestions are displayed without the two early returns *)
SuggestReportAlways(reported, suggestions) == "suggestions"

(* Lines 263-282: what the command reports *)
SuggestReport(reported, suggestions) ==
    IF reported = <<>> THEN "no_clusters"
    ELSE IF suggestions = <<>> THEN "no_suggestions"
    ELSE "suggestions"

(* Mutant: the queries also drop the tag rows that no note is linked to *)
StoreAfterTidying(w) ==
    [w EXCEPT !.tags = SelectSeq(w.tags, LAMBDA name :
                          \E r \in BagToSet(w.note_tags) : w.tags[r[2]] = name)]

(* Lines 69-81 and 104-130: the pipeline executes two SELECT statements    *)
(* and nothing else on the connection; a SELECT leaves the tables alone    *)
StoreAfterSelect(w) == w

(* Mutant: the command gives up when the pull fails, as apply does *)
ProceedsIfPulled(success) == success

(* Lines 244-249: after the pull the command goes on, "Proceeding with     *)
(* analysis using local database" when it failed                           *)
ProceedsAfterPull(success) == TRUE

(* Lines 236-288: the suggest command.  is_behind is the answer of         *)
(* check_if_behind_remote, success that of pull_latest_changes and remote  *)
(* the database file a successful pull leaves in place.                    *)
SuggestCommand(pre, is_behind, success, remote, similarity_threshold, min_cluster_size) ==
    LET w == IF is_behind /\ success THEN remote ELSE pre
        pull == IF ~is_behind THEN <<>>
                ELSE IF success THEN <<"PULL">>
                ELSE <<"PULL", "PULL_FAILED">>
        notes_data    == NotesData(NotesWithTags(w, 1))
        similar_pairs == IF DOMAIN notes_data = {} THEN <<>>
                         ELSE SimilarPairs(w, DistanceThreshold(similarity_threshold))
        reported      == FilterBySize(ClustersOf(notes_data, similar_pairs),
                                      min_cluster_size)
        suggestions   == FindSuggestions(reported)
    IN  IF is_behind /\ ~ProceedsAfterPull(success)
        THEN [store |-> w, outcome |-> "stopped", events |-> pull]
        ELSE [store |-> StoreAfterSelect(w),
              outcome |-> SuggestReport(reported, suggestions),
              events |-> pull \o <<"ANALYSE", "CLOSE">>]

-----------------------------------------------------------------------------
(* Inputs *)

Embeddings == 0 .. 2

(* len(embedding): the dimension, one of Scenario D, one short, one long *)
Dims == {EmbeddingDim, 100, EmbeddingDim - 1, EmbeddingDim + 1}

(* --similarity-threshold in hundredths, --min-cluster-size *)
SimilarityThresholds == {87, 50}

MinClusterSizes == {DefaultMinClusterSize, 3}

(* --min-cluster-size from 1 *)
MinClusterSizesFromOne == {1} \cup MinClusterSizes

UnknownId(w) == Len(w.notes) + 1

(* --note-ids: one id, two ids (repeats allowed), or an unknown id between *)
(* two ids of notes; an id is that of a note or the unknown one            *)
NoteIdLists(w) ==
    LET ids == 1 .. UnknownId(w)
    IN  {<<a>> : a \in ids}
        \cup {<<a, b>> : a \in ids, b \in ids}
        \cup {<<a, UnknownId(w), b>> : a \in DOMAIN w.notes, b \in DOMAIN w.notes}

(* --tag and --limit of search-notes; the embedding of the query text *)
SearchTagFilters == {None, PY}

SearchLimits == {1, DefaultLimit}

QueryEmbedding == 1

(* --tag of add-note *)
AddTagOptions == {PY, ML, None}

(* --keep-tag and --replace-tags (split on ',') of apply-tag-normalization *)
KeepTags == {PYTHON}

ReplaceTagArgs == {<<PY>>, <<PY, <<" ">> \o PYTHON>>}

-----------------------------------------------------------------------------
(* State machine *)

NoRequest == [note_id_list |-> <<>>, keep_tag |-> None, replace_tags |-> <<>>,
              replace_tag_list |-> <<>>, failAt |-> 0,
              dim |-> 0, tag_filter |-> None, limit |-> 0, is_behind |-> FALSE]

(* No command is running: the shell is at its prompt *)
Idle == [op |-> "idle", pre |-> EmptyStore, req |-> NoRequest,
         outcome |-> "none", run |-> StartRun(EmptyStore), events |-> <<>>,
         distances |-> <<>>, results |-> <<>>]

(* No analysis is running *)
NoAnalysis == [pc |-> "idle", similarity_threshold |-> 0, min_cluster_size |-> 0,
               listed |-> EmptyStore, listing |-> <<>>, notes_data |-> <<>>, similar_pairs |-> <<>>,
               clusters |-> <<>>, reported |-> <<>>, suggestions |-> <<>>,
               rendered |-> <<>>, report |-> "none"]

Init ==
    /\ db = EmptyStore
    /\ last = Idle
    /\ analysis = NoAnalysis

AddNoteWithin(E, max_notes) ==
    /\ last.op = "idle"
    /\ Len(db.notes) < max_notes
    /\ \E tag \in AddTagOptions, embedding \in E, dim \in Dims,
          fails \in BOOLEAN, is_behind \in BOOLEAN :
        /\ UNCHANGED analysis
        /\ LET r == AddNoteCommand(db, is_behind, tag, embedding, dim, fails)
           IN  /\ db' = r.store
               /\ last' = [op |-> "add_note", pre |-> db,
                           req |-> [NoRequest EXCEPT !.keep_tag = tag, !.dim = dim,
                                                     !.is_behind = is_behind],
                           outcome |-> r.outcome,
                           run |-> StartRun(r.store), events |-> r.events,
                           distances |-> <<>>, results |-> <<>>]

AddNote(E) == AddNoteWithin(E, MaxNotes)

Apply ==
    /\ last.op = "idle"
    /\ \E note_id_list \in NoteIdLists(db), keep_tag \in KeepTags,
          replace_tags \in ReplaceTagArgs, is_behind \in BOOLEAN :
        \E failAt \in 0 .. (StorageCalls(db, note_id_list, keep_tag, replace_tags) + 1) :
            /\ is_behind => failAt = 0
            /\ UNCHANGED analysis
            /\ LET r == ApplyCommand(db, is_behind, note_id_list, keep_tag,
                                     replace_tags, failAt)
               IN  /\ db' = r.store
                   /\ last' = [op |-> "apply", pre |-> db,
                               req |-> [note_id_list |-> note_id_list,
                                        keep_tag |-> keep_tag,
                                        replace_tags |-> replace_tags,
                                        replace_tag_list |-> ParseReplaceTags(replace_tags),
                                        failAt |-> failAt,
                                        dim |-> 0, tag_filter |-> None, limit |-> 0,
                                        is_behind |-> is_behind],
                               outcome |-> r.outcome, run |-> r.run,
                               events |-> r.events,
                               distances |-> <<>>, results |-> <<>>]

(* search_notes_by_similarity, on the embedding of a query text *)
Search ==
    /\ last.op = "idle"
    /\ \E dim \in Dims, tag_filter \in SearchTagFilters, limit \in SearchLimits :
        \E r \in SearchNotesBySimilarity(db, QueryEmbedding, dim, limit, tag_filter) :
            /\ last' = [Idle EXCEPT
                          !.op = "search", !.pre = db,
                          !.req = [NoRequest EXCEPT !.dim = dim,
                                                    !.tag_filter = tag_filter,
                                                    !.limit = limit],
                          !.outcome = r.outcome,
                          !.distances = r.distances,
                          !.results = r.results]
            /\ UNCHANGED <<db, analysis>>

(* The command's process ends; the next command starts from the store alone *)
Exit ==
    /\ last.op # "idle"
    /\ last' = Idle
    /\ UNCHANGED <<db, analysis>>

Next == AddNote({0}) \/ Apply \/ Search \/ Exit

Spec == Init /\ [][Next]_vars

-----------------------------------------------------------------------------
(* The analysis pipeline as a state machine: the listing query, then the   *)
(* pairs query with the clustering and the suggestions                     *)

(* Lines 67-96 of cluster_similar_notes *)
ListNotes ==
    /\ analysis.pc = "idle"
    /\ \E similarity_threshold \in SimilarityThresholds :
          analysis' = [NoAnalysis EXCEPT
                         !.pc = "listed",
                         !.similarity_threshold = similarity_threshold,
                         !.listed = db,
                         !.listing = NotesWithTags(db, 1),
                         !.notes_data = NotesData(NotesWithTags(db, 1))]
    /\ db' = StoreAfterSelect(db)
    /\ UNCHANGED last

(* Lines 98-179 of cluster_similar_notes, then lines 260-282 of the command *)
FindClusters ==
    /\ analysis.pc = "listed"
    /\ \E min_cluster_size \in MinClusterSizes :
          LET similar_pairs ==
                  IF DOMAIN analysis.notes_data = {} THEN <<>>
                  ELSE SimilarPairs(db, DistanceThreshold(analysis.similarity_threshold))
              clusters    == ClustersOf(analysis.notes_data, similar_pairs)
              reported    == FilterBySize(clusters, min_cluster_size)
              suggestions == FindSuggestions(reported)
          IN  analysis' = [analysis EXCEPT
                             !.pc = "done",
                             !.min_cluster_size = min_cluster_size,
                             !.similar_pairs = similar_pairs,
                             !.clusters = clusters,
                             !.reported = reported,
                             !.suggestions = suggestions,
                             !.rendered = Rendered(suggestions),
                             !.report = SuggestReport(reported, suggestions)]
    /\ db' = StoreAfterSelect(db)
    /\ UNCHANGED last

(* A store with the given embeddings and tag sets, tags py and python known *)
MakeStore(embeddings, tag_sets) ==
    [notes |-> embeddings,
     tags |-> <<PY, PYTHON>>,
     note_tags |-> SetToBag({<<n, t>> \in (DOMAIN embeddings) \X {1, 2} :
                               <<PY, PYTHON>>[t] \in tag_sets[n]})]

StoresOf(max_notes, tag_sets) ==
    UNION {{MakeStore(e, t) : e \in [1 .. n -> Embeddings],
                              t \in [1 .. n -> tag_sets]} :
           n \in 0 .. max_notes}

NextAnalysis == ListNotes \/ FindClusters

(* Clustering: up to MaxClusterNotes notes, each untagged or tagged py *)
InitClusters ==
    /\ db \in StoresOf(MaxClusterNotes, {{}, {PY}})
    /\ last = Idle
    /\ analysis = NoAnalysis

SpecClusters == InitClusters /\ [][NextAnalysis]_vars

(* Suggestions: up to MaxSuggestNotes notes, each with any of the tags py, python *)
InitSuggest ==
    /\ db \in StoresOf(MaxSuggestNotes, SUBSET {PY, PYTHON})
    /\ last = Idle
    /\ analysis = NoAnalysis

SpecSuggest == InitSuggest /\ [][NextAnalysis]_vars

(* The orders in which a query without ORDER BY may return its rows *)
RECURSIVE RowOrders(_)
RowOrders(rows) ==
    IF rows = {} THEN {<<>>}
    ELSE UNION {{<<r>> \o rest : rest \in RowOrders(rows \ {r})} : r \in rows}

(* Lines 126-127: the orders ORDER BY note1_id, distance allows; rows that *)
(* agree on both may come in any order                                     *)
RECURSIVE PairOrders(_)
PairOrders(rows) ==
    IF rows = {} THEN {<<>>}
    ELSE UNION {{<<r>> \o rest : rest \in PairOrders(rows \ {r})} :
                r \in {r \in rows :
                          \A q \in rows : ~(\/ q[1] < r[1]
                                            \/ q[1] = r[1] /\ q[3] < r[3])}}

(* Lines 67-96, the listing rows returned in any order *)
ListNotesAnyOrder ==
    /\ analysis.pc = "idle"
    /\ \E similarity_threshold \in SimilarityThresholds,
          notes_with_tags \in RowOrders(Range(NotesWithTags(db, 1))) :
          analysis' = [NoAnalysis EXCEPT
                         !.pc = "listed",
                         !.similarity_threshold = similarity_threshold,
                         !.listed = db,
                         !.listing = notes_with_tags,
                         !.notes_data = NotesData(notes_with_tags)]
    /\ db' = StoreAfterSelect(db)
    /\ UNCHANGED last

(* Lines 98-179 and 260-282, the pairs returned in any order the ORDER BY allows *)
FindClustersAnyOrder ==
    /\ analysis.pc = "listed"
    /\ \E min_cluster_size \in MinClusterSizesFromOne,
          similar_pairs \in
              (IF DOMAIN analysis.notes_data = {} THEN {<<>>}
               ELSE PairOrders(PairRows(db, DistanceThreshold(analysis.similarity_threshold)))) :
          LET clusters    == ClustersOf(analysis.notes_data, similar_pairs)
              reported    == FilterBySize(clusters, min_cluster_size)
              suggestions == FindSuggestions(reported)
          IN  analysis' = [analysis EXCEPT
                             !.pc = "done",
                             !.min_cluster_size = min_cluster_size,
                             !.similar_pairs = similar_pairs,
                             !.clusters = clusters,
                             !.reported = reported,
                             !.suggestions = suggestions,
                             !.rendered = Rendered(suggestions),
                             !.report = SuggestReport(reported, suggestions)]
    /\ db' = StoreAfterSelect(db)
    /\ UNCHANGED last

NextOrder == ListNotesAnyOrder \/ FindClustersAnyOrder

(* Row orders: up to MaxOrderNotes notes, each untagged or tagged py *)
InitOrder ==
    /\ db \in StoresOf(MaxOrderNotes, {{}, {PY}})
    /\ last = Idle
    /\ analysis = NoAnalysis

SpecOrder == InitOrder /\ [][NextOrder]_vars

(* A store with the given embeddings and tag sets over the tags names *)
MakeNamedStore(names, embeddings, tag_sets) ==
    [notes |-> embeddings,
     tags |-> names,
     note_tags |-> SetToBag({<<n, t>> \in (DOMAIN embeddings) \X (DOMAIN names) :
                               names[t] \in tag_sets[n]})]

(* Tag names as add-note stores them: up to MaxNameNotes notes, each with  *)
(* any of the tags python and " "                                          *)
InitNames ==
    /\ db \in UNION {{MakeNamedStore(<<PYTHON, SPACE>>, e, t) :
                        e \in [1 .. n -> Embeddings],
                        t \in [1 .. n -> SUBSET {PYTHON, SPACE}]} :
                     n \in 0 .. MaxNameNotes}
    /\ last = Idle
    /\ analysis = NoAnalysis

SpecNames == InitNames /\ [][NextAnalysis]_vars

(* What a pull may bring: the local database, or the database with a      *)
(* note tagged py that was added elsewhere                                 *)
RemoteStores(w) ==
    {w} \cup (IF Len(w.notes) < MaxLinkNotes
              THEN {AddNoteBody(w, 0, <<PY>>)} ELSE {})

(* The suggest command as one step of the shell *)
Suggest ==
    /\ last.op = "idle"
    /\ \E is_behind \in BOOLEAN, success \in BOOLEAN, remote \in RemoteStores(db),
          similarity_threshold \in SimilarityThresholds,
          min_cluster_size \in MinClusterSizes :
        /\ (~is_behind) => (success /\ remote = db)
        /\ (~success) => remote = db
        /\ UNCHANGED analysis
        /\ LET r == SuggestCommand(db, is_behind, success, remote,
                                   similarity_threshold, min_cluster_size)
           IN  /\ db' = r.store
               /\ last' = [Idle EXCEPT
                             !.op = "suggest", !.pre = db,
                             !.req = [NoRequest EXCEPT !.is_behind = is_behind],
                             !.outcome = r.outcome,
                             !.events = r.events]

NextCommands == Apply \/ Suggest \/ Exit

(* Commands on tagged notes: up to MaxLinkNotes notes of one embedding,    *)
(* each with any of the tags the store knows, py alone or py and python    *)
InitCommands ==
    /\ db \in UNION {{MakeNamedStore(names, [i \in 1 .. n |-> 0], t) :
                        t \in [1 .. n -> SUBSET Range(names)]} :
                     n \in 0 .. MaxLinkNotes, names \in {<<PY>>, <<PY, PYTHON>>}}
    /\ last = Idle
    /\ analysis = NoAnalysis

SpecCommands == InitCommands /\ [][NextCommands]_vars

(* The operator runs one of the commands a suggestion displays: line 36    *)
(* of suggest_tag_normalization.py, then apply_tag_normalization           *)
ApplySuggestion ==
    /\ analysis.pc = "done"
    /\ last.op = "idle"
    /\ \E i \in DOMAIN analysis.rendered : \E k \in DOMAIN analysis.rendered[i] :
          LET example      == analysis.rendered[i][k]
              replace_tags == Split(JoinOtherTags(example.replace_tags))
              r == ApplyCommand(db, FALSE, example.note_ids, example.keep_tag,
                                replace_tags, 0)
          IN  /\ db' = r.store
              /\ last' = [Idle EXCEPT
                            !.op = "apply", !.pre = db,
                            !.req = [NoRequest EXCEPT
                                       !.note_id_list = example.note_ids,
                                       !.keep_tag = example.keep_tag,
                                       !.replace_tags = replace_tags,
                                       !.replace_tag_list = ParseReplaceTags(replace_tags)],
                            !.outcome = r.outcome, !.run = r.run,
                            !.events = r.events]
    /\ analysis' = [analysis EXCEPT !.pc = "applied"]

(* The analysis run again with the same options, lines 252-282 *)
Reanalyse ==
    /\ analysis.pc = "applied"
    /\ LET notes_with_tags == NotesWithTags(db, 1)
           notes_data  == NotesData(notes_with_tags)
           similar_pairs ==
               IF DOMAIN notes_data = {} THEN <<>>
               ELSE SimilarPairs(db, DistanceThreshold(analysis.similarity_threshold))
           clusters    == ClustersOf(notes_data, similar_pairs)
           reported    == FilterBySize(clusters, analysis.min_cluster_size)
           suggestions == FindSuggestions(reported)
       IN  analysis' = [analysis EXCEPT
                          !.pc = "again",
                          !.listed = db,
                          !.listing = notes_with_tags,
                          !.notes_data = notes_data,
                          !.similar_pairs = similar_pairs,
                          !.clusters = clusters,
                          !.reported = reported,
                          !.suggestions = suggestions,
                          !.rendered = Rendered(suggestions),
                          !.report = SuggestReport(reported, suggestions)]
    /\ db' = StoreAfterSelect(db)
    /\ UNCHANGED last

NextClose == ListNotes \/ FindClusters \/ ApplySuggestion \/ Reanalyse

(* Suggest, apply, suggest again, on the stores of InitNames *)
SpecClose == InitNames /\ [][NextClose]_vars

(* One other command commits between the two queries of an analysis: an    *)
(* add-note or an apply-tag-normalization on the same database file        *)
AddNoteBetween ==
    /\ analysis.pc = "listed"
    /\ AddNoteWithin(Embeddings, MaxTornNotes)
    /\ last'.outcome = "committed"

ApplyBetween ==
    /\ analysis.pc = "listed"
    /\ Apply
    /\ last'.outcome = "committed"

NextTorn == ListNotes \/ AddNoteBetween \/ ApplyBetween \/ FindClusters

(* Up to MaxTornNotes - 1 notes at the listing, each untagged or tagged py *)
InitTorn ==
    /\ db \in StoresOf(MaxTornNotes - 1, {{}, {PY}})
    /\ last = Idle
    /\ analysis = NoAnalysis

SpecTorn == InitTorn /\ [][NextTorn]_vars

-----------------------------------------------------------------------------
(* Properties of apply_tag_normalization, checked under Spec *)

Count(seq, x) == Cardinality({i \in DOMAIN seq : seq[i] = x})

Applied == last.op = "apply"

Committed == Applied /\ last.outcome = "committed"

(* The entries of the note-id list that name a note of the store *)
ExistingEntries(w, note_id_list) ==
    {i \in DOMAIN note_id_list : note_id_list[i] \in DOMAIN w.notes}

(* C1: atomicity.  Whichever storage call of the transaction raises (the   *)
(* BEGIN, the keep-tag lookup or insert, a note check, a link fetch, a     *)
(* DELETE, an INSERT, the COMMIT), the store after the command holds the   *)
(* tag rows and the note-tag links it held before, so no note of the       *)
(* request shows a tag change, the ones processed before the failure       *)
(* included.                                                               *)
C1_Atomicity ==
    (/\ Applied
     /\ last.req.failAt \in 1 .. StorageCalls(last.pre, last.req.note_id_list,
                                             last.req.keep_tag, last.req.replace_tags))
    => /\ last.run.failed
       /\ last.outcome \in {"rolled_back", "error"}
       /\ db.tags = last.pre.tags
       /\ db.note_tags = last.pre.note_tags
       /\ \A i \in DOMAIN last.req.note_id_list :
             TagNamesOf(db, last.req.note_id_list[i])
                = TagNamesOf(last.pre, last.req.note_id_list[i])

(* C1 witness: a later storage call failed after an earlier note had been  *)
(* changed and the keep tag created inside the transaction                 *)
C1_Witness ==
    /\ Applied
    /\ last.outcome = "rolled_back"
    /\ last.run.notes_updated >= 1
    /\ last.run.tag_created
    /\ last.run.w.note_tags # last.pre.note_tags
    /\ db = last.pre

(* C2: idempotent apply.  After a committed apply, the same request run    *)
(* again leaves the same note-tag links and reports tags_removed = 0 and   *)
(* tags_added = 0.                                                         *)
C2_IdempotentApply ==
    Committed =>
        LET again == ApplyCommand(db, FALSE, last.req.note_id_list,
                                  last.req.keep_tag, last.req.replace_tags, 0)
        IN  /\ again.outcome = "committed"
            /\ again.store.note_tags = db.note_tags
            /\ again.run.tags_removed = 0
            /\ again.run.tags_added = 0

C4_UnknownIdsNonFatal ==
    (Applied /\ last.outcome # "behind" /\ last.req.failAt = 0) =>
        LET ids == last.req.note_id_list
        IN  /\ last.outcome = "committed"
            /\ db = last.run.w
            /\ last.run.warnings =
                  SelectSeq(ids, LAMBDA id : id \notin DOMAIN last.pre.notes)
            /\ Len(last.run.steps) = Len(ids)
            /\ \A i \in DOMAIN ids :
                  /\ last.run.steps[i].note_id = ids[i]
                  /\ last.run.steps[i].exists = (ids[i] \in DOMAIN last.pre.notes)
            /\ last.run.notes_updated = Cardinality(ExistingEntries(last.pre, ids))

(* C4 witness: an unknown id between two notes, both of which were changed *)
C4_Witness ==
    /\ Committed
    /\ Len(last.req.note_id_list) = 3
    /\ last.run.warnings = <<last.req.note_id_list[2]>>
    /\ last.run.steps[1].exists /\ last.run.steps[1].after # last.run.steps[1].before
    /\ last.run.steps[3].exists /\ last.run.steps[3].after # last.run.steps[3].before
    /\ last.req.note_id_list[1] # last.req.note_id_list[3]

(* C5: the reported counts of a committed apply match the mutation:        *)
(* tags_removed is the number of link rows deleted, tags_added the number  *)
(* inserted, notes_updated the number of entries of the note-id list that  *)
(* name a note, and the number of links after the command is the number    *)
(* before minus tags_removed plus tags_added.                              *)
C5_ReportedCounts ==
    Committed =>
        /\ last.run.tags_removed = last.run.deleted
        /\ last.run.tags_added = last.run.inserted
        /\ last.run.notes_updated =
              Cardinality(ExistingEntries(last.pre, last.req.note_id_list))
        /\ BagCardinality(db.note_tags) =
              BagCardinality(last.pre.note_tags)
                 - last.run.tags_removed + last.run.tags_added

(* C5 witness: links were removed and added, and an id was unknown *)
C5_Witness ==
    /\ Committed
    /\ last.run.tags_removed >= 2
    /\ last.run.tags_added >= 1
    /\ last.run.warnings # <<>>

(* C6: tag names stay unique.  After any sequence of add-note and apply    *)
(* commands the tags table has at most one row per name; apply inserts a   *)
(* keep-tag row only when no row has that name, and otherwise uses the id  *)
(* of the row that has it.                                                 *)
C6_UniqueTagNames ==
    /\ \A i \in DOMAIN db.tags : \A j \in DOMAIN db.tags :
          db.tags[i] = db.tags[j] => i = j
    /\ (Applied /\ last.run.primary_tag_id # 0) =>
          /\ last.run.tag_created = (last.req.keep_tag \notin Range(last.pre.tags))
          /\ last.run.w.tags[last.run.primary_tag_id] = last.req.keep_tag
          /\ (~last.run.tag_created =>
                /\ last.run.w.tags = last.pre.tags
                /\ last.pre.tags[last.run.primary_tag_id] = last.req.keep_tag)
          /\ (last.run.tag_created =>
                last.run.w.tags = Append(last.pre.tags, last.req.keep_tag))

(* C6 witness: a committed apply that found the keep tag among three tag   *)
(* rows and linked it                                                      *)
C6_Witness ==
    /\ Committed
    /\ ~last.run.tag_created
    /\ last.run.tags_added >= 1
    /\ Len(db.tags) = 3

-----------------------------------------------------------------------------
(* Properties of cluster_similar_notes, checked under SpecClusters *)

Analysed == analysis.pc = "done"

ClusterIds(cluster) == {cluster[i].note_id : i \in DOMAIN cluster}

(* The unordered pairs of the rows the pairs query returned *)
EdgeSet == {{row[1], row[2]} : row \in Range(analysis.similar_pairs)}

RECURSIVE ReachableFrom(_, _)
ReachableFrom(S, edges) ==
    LET more == S \cup {b \in UNION edges : \E a \in S : {a, b} \in edges}
    IN  IF more = S THEN S ELSE ReachableFrom(more, edges)

Connected(a, b) == b \in ReachableFrom({a}, EdgeSet)

InSameCluster(a, b) ==
    \E i \in DOMAIN analysis.clusters : {a, b} \subseteq ClusterIds(analysis.clusters[i])

(* C7: the clusters are the connected components of the similarity graph:  *)
(* two distinct notes are in one cluster if and only if a path of          *)
(* similarity edges connects them, so a chain A-B, B-C without the edge    *)
(* A-C puts A, B and C in one cluster.                                     *)
C7_ConnectedComponents ==
    Analysed =>
        \A a \in DOMAIN db.notes : \A b \in DOMAIN db.notes :
            a # b => (InSameCluster(a, b) <=> Connected(a, b))

(* C7 witness: a chain a-b, b-c without the edge a-c, in one cluster *)
C7_Witness ==
    /\ Analysed
    /\ \E a \in DOMAIN db.notes, b \in DOMAIN db.notes, c \in DOMAIN db.notes :
          /\ {a, b} \in EdgeSet
          /\ {b, c} \in EdgeSet
          /\ a # c
          /\ {a, c} \notin EdgeSet
          /\ InSameCluster(a, c)
          /\ InSameCluster(a, b)

(* C8: partition.  The clusters of one run are pairwise disjoint and no    *)
(* note id appears twice in a cluster: a note is in at most one cluster.   *)
C8_Partition ==
    Analysed =>
        /\ \A i \in DOMAIN analysis.clusters : \A j \in DOMAIN analysis.clusters :
              i # j => ClusterIds(analysis.clusters[i])
                          \cap ClusterIds(analysis.clusters[j]) = {}
        /\ \A i \in DOMAIN analysis.clusters :
              Len(analysis.clusters[i]) = Cardinality(ClusterIds(analysis.clusters[i]))

(* C8 witness: two clusters, one of them a triangle of three notes each    *)
(* similar to the other two                                                *)
C8_Witness ==
    /\ Analysed
    /\ Len(analysis.clusters) = 2
    /\ \E i \in DOMAIN analysis.clusters :
          /\ Len(analysis.clusters[i]) = 2
    /\ \E a \in DOMAIN db.notes, b \in DOMAIN db.notes :
          a # b /\ ~InSameCluster(a, b) /\ HasTagLink(db, a) /\ HasTagLink(db, b)

(* C9: the similarity edges are the pairs (a, b) with a < b, both notes    *)
(* carrying a tag, and distance(a, b) <= 1 - similarity_threshold: each    *)
(* such pair once, with its distance, no self-pair, no pair in both        *)
(* directions, none above the threshold; the adjacency lists hold each     *)
(* edge once in either direction.                                          *)
C9_SimilarityEdges ==
    Analysed =>
        LET notes    == DOMAIN db.notes
            bound    == 100 - analysis.similarity_threshold
            Tagged(n) == TagSetOf(db, n) # {}
            expected == {pair \in notes \X notes :
                            /\ pair[1] < pair[2]
                            /\ Tagged(pair[1])
                            /\ Tagged(pair[2])
                            /\ CosineDistance(db.notes[pair[1]], db.notes[pair[2]])
                                  <= bound}
            rows     == analysis.similar_pairs
            g        == SimilarityGraph(EmptyGraph, rows)
        IN  /\ {<<rows[i][1], rows[i][2]>> : i \in DOMAIN rows} = expected
            /\ Len(rows) = Cardinality(expected)
            /\ \A i \in DOMAIN rows :
                  rows[i][3] = CosineDistance(db.notes[rows[i][1]], db.notes[rows[i][2]])
            /\ Range(g.keys) = {n \in notes : \E pair \in expected : n \in {pair[1], pair[2]}}
            /\ \A a \in Range(g.keys) : \A b \in notes :
                  Count([k \in DOMAIN g.adj[a] |-> g.adj[a][k][1]], b) =
                      (IF <<a, b>> \in expected \/ <<b, a>> \in expected THEN 1 ELSE 0)

(* C9 witness: a pair exactly at the threshold is an edge, a tagged pair   *)
(* above it is not, and an untagged note within the threshold has no edge  *)
C9_Witness ==
    /\ Analysed
    /\ \E row \in Range(analysis.similar_pairs) :
          row[3] = 100 - analysis.similarity_threshold
    /\ \E a \in DOMAIN db.notes, b \in DOMAIN db.notes :
          /\ a < b /\ HasTagLink(db, a) /\ HasTagLink(db, b)
          /\ {a, b} \notin EdgeSet
    /\ \E a \in DOMAIN db.notes, b \in DOMAIN db.notes :
          /\ a # b /\ ~HasTagLink(db, a) /\ HasTagLink(db, b)
          /\ CosineDistance(db.notes[a], db.notes[b]) = 0

-----------------------------------------------------------------------------
(* Properties of find_tag_normalization_suggestions, checked under SpecSuggest *)

DistinctTags(cluster) == UNION {Range(cluster[i].tags) : i \in DOMAIN cluster}

NoteIdsOf(cluster) == [i \in DOMAIN cluster |-> cluster[i].note_id]

RECURSIVE Occurrences(_)
Occurrences(cluster) ==
    IF cluster = <<>> THEN <<>>
    ELSE Head(cluster).tags \o Occurrences(Tail(cluster))

FirstIndex(seq, x) == CHOOSE i \in DOMAIN seq : seq[i] = x /\ \A j \in 1 .. (i - 1) : seq[j] # x

(* The suggestions emitted for a cluster *)
SuggestionsFor(cluster) ==
    {i \in DOMAIN analysis.suggestions :
        analysis.suggestions[i].note_ids = NoteIdsOf(cluster)}

(* The count a tally holds for a tag name, 0 when it holds none *)
TallyOf(tags, name) ==
    IF \E k \in DOMAIN tags : tags[k][1] = name
    THEN tags[CHOOSE k \in DOMAIN tags : tags[k][1] = name][2]
    ELSE 0

(* The sum of the counts of a tally *)
RECURSIVE TallySum(_)
TallySum(tags) == IF tags = <<>> THEN 0 ELSE Head(tags)[2] + TallySum(Tail(tags))

(* C11: a reported cluster whose members all carry the same set of tags    *)
(* yields no suggestion, whatever that set is (one tag, or two or more).   *)
C11_IdenticalTagSets ==
    Analysed =>
        \A c \in DOMAIN analysis.reported :
            LET cluster == analysis.reported[c]
            IN  (\A i, j \in DOMAIN cluster :
                    Range(cluster[i].tags) = Range(cluster[j].tags))
                => SuggestionsFor(cluster) = {}

(* Code points of the characters of the tag names, as str compares them *)
CodePoint(c) ==
    CASE c = " " -> 32 [] c = "," -> 44 [] c = "h" -> 104 [] c = "l" -> 108
      [] c = "m" -> 109 [] c = "n" -> 110 [] c = "o" -> 111 [] c = "p" -> 112
      [] c = "t" -> 116 [] c = "y" -> 121

(* s1 < s2 as strings *)
RECURSIVE NameBefore(_, _)
NameBefore(s1, s2) ==
    IF s2 = <<>> THEN FALSE
    ELSE IF s1 = <<>> THEN TRUE
    ELSE IF Head(s1) # Head(s2) THEN CodePoint(Head(s1)) < CodePoint(Head(s2))
    ELSE NameBefore(Tail(s1), Tail(s2))

(* C12 as stated: the alternatives of a suggestion come in descending      *)
(* count and, among tags of equal count, in order of tag name.             *)
C12_CountThenName ==
    Analysed =>
        \A s \in DOMAIN analysis.rendered :
            \A i, j \in DOMAIN analysis.rendered[s] :
                i < j =>
                    LET a == analysis.rendered[s][i]
                        b == analysis.rendered[s][j]
                    IN  \/ a.count > b.count
                        \/ a.count = b.count /\ NameBefore(a.keep_tag, b.keep_tag)

(* C12 amended: the alternatives of a suggestion come in descending count  *)
(* and, among tags of equal count, in the order in which the tally first   *)
(* met them (cluster order, then the order of each note's tag list).       *)
C12_CountThenFirstMet ==
    Analysed =>
        \A s \in DOMAIN analysis.rendered :
            LET cluster == CHOOSE c \in Range(analysis.reported) :
                              NoteIdsOf(c) = analysis.suggestions[s].note_ids
                occ == Occurrences(cluster)
            IN  \A i, j \in DOMAIN analysis.rendered[s] :
                    i < j =>
                        LET a == analysis.rendered[s][i]
                            b == analysis.rendered[s][j]
                        IN  \/ a.count > b.count
                            \/ /\ a.count = b.count
                               /\ FirstIndex(occ, a.keep_tag) < FirstIndex(occ, b.keep_tag)

(* C12 witness: two alternatives of equal count, the first met being the   *)
(* later one by name                                                       *)
C12_Witness ==
    /\ Analysed
    /\ \E s \in DOMAIN analysis.rendered :
          /\ Len(analysis.rendered[s]) = 2
          /\ analysis.rendered[s][1].count = analysis.rendered[s][2].count
          /\ analysis.rendered[s][1].keep_tag = PYTHON
          /\ analysis.rendered[s][2].keep_tag = PY

(* C13: alternative enumeration.  A suggestion renders exactly one         *)
(* alternative per distinct tag X of its cluster, and the replace list of  *)
(* the alternative for X holds every distinct tag of the cluster except X, *)
(* each once: it is never empty and never contains X.                      *)
C13_AlternativeEnumeration ==
    Analysed =>
        \A s \in DOMAIN analysis.rendered :
            LET cluster == CHOOSE c \in Range(analysis.reported) :
                              NoteIdsOf(c) = analysis.suggestions[s].note_ids
                examples == analysis.rendered[s]
            IN  /\ {examples[i].keep_tag : i \in DOMAIN examples} = DistinctTags(cluster)
                /\ Len(examples) = Cardinality(DistinctTags(cluster))
                /\ \A i \in DOMAIN examples :
                      /\ Range(examples[i].replace_tags)
                            = DistinctTags(cluster) \ {examples[i].keep_tag}
                      /\ Len(examples[i].replace_tags)
                            = Cardinality(DistinctTags(cluster)) - 1
                      /\ examples[i].replace_tags # <<>>
                      /\ examples[i].keep_tag \notin Range(examples[i].replace_tags)

(* C14: most-common tag.  The most_common_tag of a suggestion has the      *)
(* largest count of the tally of its cluster, and of the tags with that    *)
(* count it is the one met first going through the notes in cluster order  *)
(* and the tags of each note in list order.                                *)
C14_MostCommonTag ==
    Analysed =>
        \A s \in DOMAIN analysis.suggestions :
            LET cluster == CHOOSE c \in Range(analysis.reported) :
                              NoteIdsOf(c) = analysis.suggestions[s].note_ids
                occ == Occurrences(cluster)
                top == analysis.suggestions[s].most_common_tag
            IN  /\ top \in Range(occ)
                /\ \A t \in Range(occ) :
                      \/ Count(occ, t) < Count(occ, top)
                      \/ /\ Count(occ, t) = Count(occ, top)
                         /\ FirstIndex(occ, top) <= FirstIndex(occ, t)

(* C14 witness: python and py tie for the largest count and python, met    *)
(* first, is the most common tag                                           *)
C14_Witness ==
    /\ Analysed
    /\ \E s \in DOMAIN analysis.suggestions :
          /\ analysis.suggestions[s].most_common_tag = PYTHON
          /\ analysis.suggestions[s].tags = << <<PYTHON, 2>>, <<PY, 2>> >>

(* C15: tag tally.  In the tally of a suggestion the count of a tag name   *)
(* is the number of (member note, tag) occurrences of that name, a name    *)
(* that does not occur has no count, and the counts add up to the number   *)
(* of tags the members carry.                                              *)
C15_TagTally ==
    Analysed =>
        \A s \in DOMAIN analysis.suggestions :
            LET cluster == CHOOSE c \in Range(analysis.reported) :
                              NoteIdsOf(c) = analysis.suggestions[s].note_ids
                occ  == Occurrences(cluster)
                tags == analysis.suggestions[s].tags
            IN  /\ \A t \in Range(occ) : TallyOf(tags, t) = Count(occ, t)
                /\ \A k \in DOMAIN tags : tags[k][1] \in Range(occ)
                /\ \A k, l \in DOMAIN tags : tags[k][1] = tags[l][1] => k = l
                /\ TallySum(tags) = Len(occ)

(* C15 witness: a note with two tags among three members, so that five     *)
(* occurrences are counted for two names                                   *)
C15_Witness ==
    /\ Analysed
    /\ \E s \in DOMAIN analysis.suggestions :
          /\ Len(analysis.suggestions[s].note_ids) = 3
          /\ analysis.suggestions[s].tags = << <<PY, 3>>, <<PYTHON, 2>> >>


-----------------------------------------------------------------------------
(* Properties of the row orders, checked under SpecOrder *)

(* The clusters as sets of note ids *)
Membership(clusters) == {ClusterIds(clusters[i]) : i \in DOMAIN clusters}

(* C16: determinism of clustering.  Whatever order the listing rows came   *)
(* in, and whatever order the pairs came in among those the ORDER BY       *)
(* allows (pairs of equal note1_id and equal distance in either order),    *)
(* the clusters have the membership of the run that gets both in           *)
(* ascending id order, so any two runs on the same store and threshold     *)
(* agree on membership.                                                    *)
C16_Determinism ==
    Analysed =>
        Membership(analysis.clusters)
            = Membership(ClustersOf(NotesData(NotesWithTags(db, 1)),
                                    SimilarPairs(db, DistanceThreshold(analysis.similarity_threshold))))

(* C16 witness: three notes clustered from a listing that came in          *)
(* descending id order and pairs of note 1 that tie and came with the      *)
(* larger note2_id first                                                   *)
C16_Witness ==
    /\ Analysed
    /\ Len(analysis.listing) = 3
    /\ analysis.listing[1][1] = 3
    /\ analysis.listing[3][1] = 1
    /\ Len(analysis.similar_pairs) >= 2
    /\ analysis.similar_pairs[1] = <<1, 3, 0>>
    /\ analysis.similar_pairs[2] = <<1, 2, 0>>
    /\ Membership(analysis.clusters) = {{1, 2, 3}}

(* The connected components of the similarity edges, as sets of note ids *)
EdgeComponents == {ReachableFrom({a}, EdgeSet) : a \in UNION EdgeSet}

(* C17: minimum cluster size.  For every min_cluster_size the clusters     *)
(* the command goes on with are exactly the connected components of the    *)
(* similarity edges that have at least min_cluster_size members, each      *)
(* once; the smaller components are discarded.                             *)
C17_MinClusterSize ==
    Analysed =>
        /\ Membership(analysis.reported)
              = {c \in EdgeComponents : Cardinality(c) >= analysis.min_cluster_size}
        /\ Len(analysis.reported) = Cardinality(Membership(analysis.reported))
        /\ \A i \in DOMAIN analysis.reported :
              Len(analysis.reported[i]) = Cardinality(ClusterIds(analysis.reported[i]))

(* C17 witness: with min_cluster_size 3 the component of notes 1 and 2 is  *)
(* discarded                                                               *)
C17_Witness ==
    /\ Analysed
    /\ analysis.min_cluster_size = 3
    /\ EdgeComponents = {{1, 2}}
    /\ Membership(analysis.clusters) = {{1, 2}}
    /\ analysis.reported = <<>>

(* The note-tag links of a note *)
LinksOf(n) == {r \in BagToSet(db.note_tags) : r[1] = n}

(* C18: untagged notes are excluded.  A note with no tag link is in no     *)
(* returned pair and in no cluster, and a tagged note that is in no        *)
(* returned pair is in no cluster.                                         *)
C18_UntaggedExcluded ==
    Analysed =>
        \A n \in DOMAIN db.notes :
            /\ LinksOf(n) = {} =>
                  /\ n \notin UNION EdgeSet
                  /\ n \notin DOMAIN analysis.notes_data
                  /\ \A c \in DOMAIN analysis.clusters : n \notin ClusterIds(analysis.clusters[c])
            /\ (LinksOf(n) # {} /\ n \notin UNION EdgeSet) =>
                  \A c \in DOMAIN analysis.clusters : n \notin ClusterIds(analysis.clusters[c])

(* C18 witness: notes 1 and 2 cluster; note 3 has their embedding and no   *)
(* tag; note 4 is tagged and too far from the others                       *)
C18_Witness ==
    /\ Analysed
    /\ Len(db.notes) = 4
    /\ Membership(analysis.clusters) = {{1, 2}}
    /\ LinksOf(3) = {}
    /\ db.notes[3] = db.notes[1]
    /\ LinksOf(4) # {}
    /\ 4 \notin UNION EdgeSet

-----------------------------------------------------------------------------
(* Properties of the embedding check, checked under Spec *)

(* C19: embedding dimension validation.  An add_note whose embedding is    *)
(* not of length 3072 is refused as invalid with no BEGIN issued and the   *)
(* store as it was; a search whose query embedding is not of length 3072   *)
(* is refused as invalid with no distance computed and no result, the      *)
(* store as it was.                                                        *)
C19_DimensionValidation ==
    /\ (last.op = "add_note" /\ last.req.dim # 3072) =>
          /\ last.outcome \in {"invalid", "behind"}
          /\ last.events = <<>>
          /\ db = last.pre
    /\ (last.op = "search" /\ last.req.dim # 3072) =>
          /\ last.outcome = "invalid"
          /\ last.distances = <<>>
          /\ last.results = <<>>
          /\ db = last.pre

(* C19 witness: an embedding of length 3073 is refused by add_note on a    *)
(* store that holds a note                                                 *)
C19_Witness ==
    /\ last.op = "add_note"
    /\ last.req.dim = 3073
    /\ last.outcome = "invalid"
    /\ Len(db.notes) = 1

-----------------------------------------------------------------------------
(* Properties of the empty cases, checked under SpecClusters *)

(* The pairs of tagged notes within the distance threshold of the run *)
CloseTaggedPairs ==
    {<<a, b>> \in (DOMAIN db.notes) \X (DOMAIN db.notes) :
        /\ a < b
        /\ LinksOf(a) # {}
        /\ LinksOf(b) # {}
        /\ CosineDistance(db.notes[a], db.notes[b]) <= 100 - analysis.similarity_threshold}

(* C20: empty inputs are not errors.  When no note is tagged, or no two    *)
(* tagged notes are within the threshold, the analysis ends with an empty  *)
(* list of clusters and no suggestion, and the command reports that no     *)
(* clusters were found.                                                    *)
C20_EmptyInputs ==
    (Analysed /\ CloseTaggedPairs = {}) =>
        /\ analysis.clusters = <<>>
        /\ analysis.reported = <<>>
        /\ analysis.suggestions = <<>>
        /\ analysis.rendered = <<>>
        /\ analysis.report = "no_clusters"

(* C20 witness: two tagged notes and an untagged one, the tagged ones too  *)
(* far apart for the threshold                                             *)
C20_Witness ==
    /\ Analysed
    /\ Len(db.notes) = 3
    /\ Cardinality({n \in DOMAIN db.notes : LinksOf(n) # {}}) = 2
    /\ CloseTaggedPairs = {}
    /\ analysis.report = "no_clusters"

-----------------------------------------------------------------------------
(* Properties of the commands around the analysis and the transaction *)

(* C21: the analysis is read-only.  No step of cluster_similar_notes and   *)
(* find_tag_normalization_suggestions changes a row of notes, tags or      *)
(* note_tags, whatever the run returns.                                    *)
C21_AnalysisReadOnly ==
    [][(analysis' # analysis) =>
          /\ db'.notes = db.notes
          /\ db'.tags = db.tags
          /\ db'.note_tags = db.note_tags]_vars

(* C21 witness: a run that returned a cluster and a suggestion, on the     *)
(* store that was listed                                                   *)
C21_Witness ==
    /\ Analysed
    /\ Len(analysis.clusters) >= 1
    /\ Len(analysis.suggestions) >= 1
    /\ db = analysis.listed

(* C22: ordering of apply and sync.  sync_database_to_github is attempted *)
(* only after COMMIT, on the store the transaction wrote; a run that was   *)
(* refused at the gate, whose BEGIN failed or that was rolled back         *)
(* attempts no sync.                                                       *)
C22_SyncAfterCommit ==
    Applied =>
        /\ \A i \in DOMAIN last.events :
              last.events[i] = "SYNC" =>
                  /\ \E j \in 1 .. (i - 1) : last.events[j] = "COMMIT"
                  /\ \A j \in 1 .. (i - 1) : last.events[j] # "ROLLBACK"
                  /\ db = last.run.w
        /\ (\/ last.req.is_behind
            \/ last.req.failAt \in 1 .. StorageCalls(last.pre, last.req.note_id_list,
                                                      last.req.keep_tag,
                                                      last.req.replace_tags))
              => "SYNC" \notin Range(last.events)

(* C22 witness: a run rolled back after it had changed a note, without     *)
(* sync                                                                    *)
C22_Witness ==
    /\ Applied
    /\ last.outcome = "rolled_back"
    /\ last.run.notes_updated >= 1
    /\ last.run.w.note_tags # last.pre.note_tags
    /\ "ROLLBACK" \in Range(last.events)
    /\ "SYNC" \notin Range(last.events)

(* C23: whenever apply prints "No changes were made to the database", the  *)
(* tag rows and the note-tag links are those before the call; a failure    *)
(* raised after COMMIT reaches the handler too, and does not print it over *)
(* a store that was changed.                                               *)
C23_NoChangesMessage ==
    (Applied /\ "NO_CHANGES" \in Range(last.events)) =>
        /\ db.tags = last.pre.tags
        /\ db.note_tags = last.pre.note_tags

(* C23 witness: the message after a rollback that undid writes *)
C23_Witness ==
    /\ Applied
    /\ "NO_CHANGES" \in Range(last.events)
    /\ last.run.w.note_tags # last.pre.note_tags
    /\ last.run.tags_removed >= 1

(* C24: stale-repository gate.  When the repository is behind, apply       *)
(* returns with no storage call made and the store as it was; suggest      *)
(* attempts a pull and runs the analysis to its report whether the pull    *)
(* succeeded or failed.                                                    *)
C24_StaleGate ==
    /\ (Applied /\ last.req.is_behind) =>
          /\ last.outcome = "behind"
          /\ last.events = <<>>
          /\ last.run.calls = 0
          /\ db = last.pre
    /\ (last.op = "suggest" /\ last.req.is_behind) =>
          /\ last.events[1] = "PULL"
          /\ "ANALYSE" \in Range(last.events)
          /\ last.outcome \in {"no_clusters", "no_suggestions", "suggestions"}
          /\ "PULL_FAILED" \in Range(last.events) => db = last.pre

(* C24 witness: suggest went on to report suggestions after a failed pull *)
C24_Witness ==
    /\ last.op = "suggest"
    /\ last.req.is_behind
    /\ "PULL_FAILED" \in Range(last.events)
    /\ last.outcome = "suggestions"

(* C25: after a committed apply every note id of the request that exists   *)
(* carries a link to the keep tag.                                         *)
C25_KeepTagPresent ==
    Committed =>
        \A i \in ExistingEntries(last.pre, last.req.note_id_list) :
            last.req.keep_tag \in TagSetOf(db, last.req.note_id_list[i])

(* Copies of the link <<n, t>> in a store *)
Links(w, n, t) == CopiesIn(<<n, t>>, w.note_tags)

NoDuplicateLinks(w) == \A r \in BagToSet(w.note_tags) : CopiesIn(r, w.note_tags) = 1

(* C29: no duplicate links.  From a store without duplicate links, after   *)
(* any sequence of apply calls, committed or rolled back, with repeated    *)
(* ids allowed, no note has two links to the same tag, in the store and in *)
(* what the last transaction wrote.                                        *)
C29_NoDuplicateLinks ==
    /\ NoDuplicateLinks(db)
    /\ Applied => NoDuplicateLinks(last.run.w)

(* C29 witness: note 1 listed twice, the keep tag added once *)
C29_Witness ==
    /\ Committed
    /\ last.req.note_id_list = <<1, 1>>
    /\ last.run.tags_added = 1
    /\ Links(db, 1, SelectTagId(db, last.req.keep_tag)) = 1

(* The notes of the pairs result that the listing does not hold *)
PairedOnly ==
    (UNION EdgeSet) \ DOMAIN analysis.notes_data

(* C28: analysis interleaved with commits.  When an apply or an add_note   *)
(* committed between the listing query and the pairs query, every cluster  *)
(* still holds only notes of the listing, with the data of the listing,    *)
(* has at least 2 members and shares no note with another cluster; a note  *)
(* that only the pairs result holds is in no cluster, and two listed notes *)
(* it connects are in one cluster.                                         *)
C28_TornSnapshot ==
    (Analysed /\ db # analysis.listed) =>
        LET clusters == analysis.clusters
            listed   == DOMAIN analysis.notes_data
        IN  /\ \A i \in DOMAIN clusters :
                  /\ ClusterIds(clusters[i]) \subseteq listed
                  /\ \A k \in DOMAIN clusters[i] :
                        clusters[i][k] = analysis.notes_data[clusters[i][k].note_id]
                  /\ Len(clusters[i]) >= 2
                  /\ Cardinality(ClusterIds(clusters[i])) = Len(clusters[i])
                  /\ \A j \in DOMAIN clusters :
                        i # j => ClusterIds(clusters[i]) \cap ClusterIds(clusters[j]) = {}
            /\ \A n \in PairedOnly : \A i \in DOMAIN clusters :
                  n \notin ClusterIds(clusters[i])
            /\ \A a \in listed, b \in listed :
                  a # b => (InSameCluster(a, b) <=> Connected(a, b))

(* C28 witness: a note added after the listing connects two listed notes   *)
(* that are not similar to each other; the cluster holds the two           *)
C28_Witness ==
    /\ Analysed
    /\ db # analysis.listed
    /\ \E n \in PairedOnly :
          \E a \in DOMAIN analysis.notes_data, b \in DOMAIN analysis.notes_data :
              /\ a # b
              /\ {a, b} \notin EdgeSet
              /\ {a, n} \in EdgeSet
              /\ {n, b} \in EdgeSet
              /\ InSameCluster(a, b)
              /\ Len(analysis.clusters) = 1
              /\ Len(analysis.clusters[1]) = 2

(* C30: tag-list round trip.  For every note that has a tag link, the tag  *)
(* list the analysis attributes to it, split and stripped from the joined  *)
(* aggregate, holds the tag names linked to the note in the store, each    *)
(* once, whatever the names are.                                           *)
C30_TagListRoundTrip ==
    (analysis.pc # "idle") =>
        \A n \in DOMAIN db.notes :
            HasTagLink(db, n) =>
                /\ n \in DOMAIN analysis.notes_data
                /\ Range(analysis.notes_data[n].tags) = TagSetOf(db, n)
                /\ Len(analysis.notes_data[n].tags) = Len(TagNamesOf(db, n))

(* C26: applying a suggestion closes it.  After one of the commands a      *)
(* suggestion displays has been applied, every note of the suggestion's    *)
(* cluster carries the kept tag and nothing else, and the analysis run     *)
(* again reports the same cluster and no suggestion for it.                *)
C26_ApplyCloses ==
    (Committed /\ analysis.pc \in {"applied", "again"}) =>
        LET ids == Range(last.req.note_id_list)
        IN  /\ \A n \in ids :
                  /\ TagSetOf(db, n) = {last.req.keep_tag}
                  /\ Len(TagNamesOf(db, n)) = 1
            /\ analysis.pc = "again" =>
                  /\ \E i \in DOMAIN analysis.reported :
                        ClusterIds(analysis.reported[i]) = ids
                  /\ \A i \in DOMAIN analysis.suggestions :
                        Range(analysis.suggestions[i].note_ids) # ids

=============================================================================
